---- MODULE Spec2Model ----
(***************************************************************************)
(* A model of reddit_persona.py: the profile-URL resolver, the content     *)
(* collector, the excerpt builder, the completion call, the output writer  *)
(* and the two front-ends that drive them.                                 *)
(*                                                                         *)
(* Text is modelled as a sequence of one-character strings wherever the    *)
(* code looks at single characters (the URL, the time stamp, the "\n\n"    *)
(* separator); the fixed pieces of an f-string that the code never looks   *)
(* into ("POST [", "]: ", ...) are one element each.                       *)
(***************************************************************************)
EXTENDS Integers, Sequences, FiniteSets, TLC

VARIABLES
    frontend,   \* "cli" or "ui": which driver runs the pipeline
    pc,         \* position of the driver (or of the function under check)
    url,        \* args.url / reddit_url
    limit,      \* args.limit / scrape_limit
    username,   \* local `username` of the driver
    user_data,  \* local `user_data` of the driver
    excerpt,    \* the string _prepare_content returned
    persona,    \* local `persona` of the driver
    files,      \* the files under output/: path -> content
    exitCode,   \* exit status of the process (NoExit while it runs)
    error,      \* str(e) of the exception the driver caught (<<>>: none)
    calls,      \* the calls made to the two external APIs in this run, each
                \* with ":error" after its name when it raised
    runs,       \* number of runs (of calls of save_persona, when it is
                \* checked on its own) started so far
    before,     \* the files as they were when the run (the call) started
    remote      \* what the data API answers when scrape_user_data is checked
                \* on its own

vars == <<frontend, pc, url, limit, username, user_data, excerpt, persona,
          files, exitCode, error, calls, runs, before, remote>>

Min(a, b) == IF a <= b THEN a ELSE b

\* s[:n] of Python, for n >= 0
Slice(s, n) == SubSeq(s, 1, Min(n, Len(s)))

RECURSIVE ConcatRange(_, _, _)
\* parts[lo] + ... + parts[hi], halving the range
ConcatRange(parts, lo, hi) ==
    IF lo > hi THEN <<>>
    ELSE IF lo = hi THEN parts[lo]
    ELSE LET mid == (lo + hi) \div 2
         IN  ConcatRange(parts, lo, mid) \o ConcatRange(parts, mid + 1, hi)

\* The list a loop builds that appends parts[1], parts[2], ... in turn
\* (each a list itself); also "".join(parts).
Concat(parts) == ConcatRange(parts, 1, Len(parts))

----------------------------------------------------------------------------
(* RedditScraper.extract_username_from_url                                 *)

SLASH == "/"

RedditCom == <<"r", "e", "d", "d", "i", "t", ".", "c", "o", "m">>

\* The literal part of the three patterns, in the order of the list.  Every
\* pattern is this literal followed by the group ([^/]+).
patterns ==
    << RedditCom \o <<"/", "u", "/">>,
       RedditCom \o <<"/", "u", "s", "e", "r", "/">>,
       RedditCom \o <<"/", "u", "s", "e", "r", "s", "/">> >>

\* Whether the literal characters lit stand in s from index i on.
LiteralAt(lit, s, i) ==
    /\ i + Len(lit) - 1 <= Len(s)
    /\ \A k \in 1..Len(lit) : s[i + k - 1] = lit[k]

\* A group that stops after its first character (the lazy [^/]+?).
GroupEndLazy(s, j) == j

RECURSIVE GroupEnd(_, _)
\* [^/]+ is greedy: from index j (a character other than "/") it runs on to
\* the last character before the next "/" or the end of the string.
GroupEnd(s, j) ==
    IF j + 1 <= Len(s) /\ s[j + 1] # SLASH THEN GroupEnd(s, j + 1) ELSE j

\* match.group(1) of a match of the pattern with literal lit that starts at i
group1(lit, s, i) == SubSeq(s, i + Len(lit), GroupEnd(s, i + Len(lit)))

\* Whether the pattern matches at index i: the literal, then one character
\* at least that is not "/".
MatchesAt(lit, s, i) ==
    /\ LiteralAt(lit, s, i)
    /\ i + Len(lit) <= Len(s)
    /\ s[i + Len(lit)] # SLASH

NoMatch == [found |-> FALSE, group |-> <<>>]

RECURSIVE SearchRange(_, _, _, _)
\* The leftmost match that starts in lo..hi: the lower half of the range is
\* searched before the upper half.
SearchRange(lit, s, lo, hi) ==
    IF lo > hi THEN NoMatch
    ELSE IF lo = hi
    THEN IF MatchesAt(lit, s, lo)
         THEN [found |-> TRUE, group |-> group1(lit, s, lo)]
         ELSE NoMatch
    ELSE LET mid == (lo + hi) \div 2
             low == SearchRange(lit, s, lo, mid)
         IN  IF low.found THEN low ELSE SearchRange(lit, s, mid + 1, hi)

\* re.search(pattern, url): the leftmost match.
re_search(lit, s) == SearchRange(lit, s, 1, Len(s))

InvalidUrlMessage(u) == <<"Invalid Reddit URL format: ">> \o u

RECURSIVE TryPatterns(_, _)
\* The for loop over patterns: the first pattern that matches decides.
TryPatterns(ps, u) ==
    IF ps = <<>> THEN [ok |-> FALSE, value |-> InvalidUrlMessage(u)]
    ELSE LET m == re_search(Head(ps), u)
         IN  IF m.found THEN [ok |-> TRUE, value |-> m.group]
             ELSE TryPatterns(Tail(ps), u)

\* A resolver that takes a string no pattern matches for the username.
extract_username_or_input(u) ==
    LET r == TryPatterns(patterns, u)
    IN  IF r.ok THEN r ELSE [ok |-> TRUE, value |-> u]

extract_username_from_url(u) == TryPatterns(patterns, u)

----------------------------------------------------------------------------
(* RedditScraper.scrape_user_data                                          *)

\* Python's None where the code tests a text for truth.  No text of the
\* model holds this element.
None == <<"<None>">>

Truthy(x) == x # None /\ x # <<>>

NoFail == -1

\* The dict built for one submission.  subreddit, score, created_utc and
\* url are copied the same way and read by nothing in the program.
PostRecord(submission) ==
    [id |-> submission.id, title |-> submission.title,
     selftext |-> submission.selftext]

\* The dict built for one comment (same remark).
CommentRecord(comment) == [id |-> comment.id, body |-> comment.body]

\* Whether iterating user.submissions.new(limit=lim) / user.comments.new
\* raises: the listing holds `listing`, and the first request fails
\* (failAt = 0) or, failAt items appended and more to come, the next request
\* or the reading of the next item's attributes does.
ListingRaises(listing, lim, failAt) ==
    /\ failAt # NoFail
    /\ failAt < lim
    /\ failAt = 0 \/ failAt < Len(listing)

\* A collector that empties the list when the listing raises.
AppendedOrNothing(listing, lim, failAt) ==
    IF ListingRaises(listing, lim, failAt) THEN <<>> ELSE Slice(listing, lim)

\* What the for loop appended before it ended or the except clause caught
\* the error: the list is not cleared in the except clause.
Appended(listing, lim, failAt) ==
    IF ListingRaises(listing, lim, failAt)
    THEN Slice(listing, failAt)
    ELSE Slice(listing, lim)

UserNotFoundMessage(name) ==
    <<"User '">> \o name \o <<"' not found or suspended">>

ApiNotFound == <<"received 404 HTTP response">>

ScrapeErrorMessage(inner) == <<"Error scraping user data: ">> \o inner

\* lookup: "ok"; "no_id" (hasattr is false and user.id raises: ValueError);
\* "api_error" (the provider's error leaves hasattr itself).
scrape_user_data(name, lim, lookup, rPosts, pFail, rComments, cFail) ==
    IF lookup = "no_id"
    THEN [ok |-> FALSE, value |-> ScrapeErrorMessage(UserNotFoundMessage(name))]
    ELSE IF lookup = "api_error"
    THEN [ok |-> FALSE, value |-> ScrapeErrorMessage(ApiNotFound)]
    ELSE LET posts == Appended(rPosts, lim, pFail)
             comments == Appended(rComments, lim, cFail)
         IN  [ok |-> TRUE,
              value |-> [username |-> name,
                         posts |-> [i \in 1..Len(posts) |-> PostRecord(posts[i])],
                         comments |-> [i \in 1..Len(comments) |->
                                          CommentRecord(comments[i])],
                         total_posts |-> Len(posts),
                         total_comments |-> Len(comments)]]

\* The calls scrape_user_data makes to the data API, ":error" after those
\* that raise.
ScrapeCalls(lim, lookup, rPosts, pFail, rComments, cFail) ==
    IF lookup = "ok"
    THEN <<"redditor",
           IF ListingRaises(rPosts, lim, pFail)
           THEN "submissions:error" ELSE "submissions",
           IF ListingRaises(rComments, lim, cFail)
           THEN "comments:error" ELSE "comments">>
    ELSE <<"redditor:error">>

----------------------------------------------------------------------------
(* PersonaGenerator._prepare_content and generate_persona                  *)

ExcerptLimit == 50
TextLimit == 500
MinCommentLen == 10

NL == "\n"

\* The entry built with the whole self-text, the [:500] forgotten.
PostEntryUncut(post) ==
    IF Truthy(post.title) /\ Truthy(post.selftext)
    THEN << <<"POST [", post.id, "]: ">> \o post.title \o <<" - ">>
            \o post.selftext >>
    ELSE IF Truthy(post.title)
    THEN << <<"POST [", post.id, "]: ">> \o post.title >>
    ELSE <<>>

\* What the loop over posts appends for one post: one entry or none.
PostEntry(post) ==
    IF Truthy(post.title) /\ Truthy(post.selftext)
    THEN << <<"POST [", post.id, "]: ">> \o post.title \o <<" - ">>
            \o Slice(post.selftext, TextLimit) >>
    ELSE IF Truthy(post.title)
    THEN << <<"POST [", post.id, "]: ">> \o post.title >>
    ELSE <<>>

\* The test len(body) >= 10 in the place of len(body) > 10.
CommentEntryFrom10(comment) ==
    IF Truthy(comment.body) /\ Len(comment.body) >= MinCommentLen
    THEN << <<"COMMENT [", comment.id, "]: ">> \o Slice(comment.body, TextLimit) >>
    ELSE <<>>

\* What the loop over comments appends for one comment: one entry or none.
CommentEntry(comment) ==
    IF Truthy(comment.body) /\ Len(comment.body) > MinCommentLen
    THEN << <<"COMMENT [", comment.id, "]: ">> \o Slice(comment.body, TextLimit) >>
    ELSE <<>>

\* The entries the loop over posts appends, in the order of the posts.
PostEntries(posts) == Concat([i \in 1..Len(posts) |-> PostEntry(posts[i])])

\* The entries the loop over comments appends, in the order of the comments.
CommentEntries(comments) ==
    Concat([i \in 1..Len(comments) |-> CommentEntry(comments[i])])

\* A join that also ends the last part with sep.
JoinTrailing(sep, parts) ==
    Concat([i \in 1..(2 * Len(parts)) |->
               IF i % 2 = 1 THEN parts[(i + 1) \div 2] ELSE sep])

\* sep.join(parts): the parts with sep between each two neighbours.
Join(sep, parts) ==
    IF parts = <<>> THEN <<>>
    ELSE Concat([i \in 1..(2 * Len(parts) - 1) |->
                    IF i % 2 = 1 THEN parts[(i + 1) \div 2] ELSE sep])

prepare_content(data) ==
    Join(<<NL, NL>>,
         PostEntries(Slice(data.posts, ExcerptLimit))
         \o CommentEntries(Slice(data.comments, ExcerptLimit)))

\* The error raised again as it came.
GenerationErrorUnwrapped(e) == e

GenerationErrorMessage(e) == <<"Error generating persona: ">> \o e

\* A generator that returns the message of the error for the persona.
generate_persona_swallowing(data, outcome) ==
    IF outcome.ok THEN [ok |-> TRUE, value |-> outcome.text]
    ELSE [ok |-> TRUE, value |-> GenerationErrorMessage(outcome.text)]

\* outcome: [ok |-> TRUE, text |-> the first choice's content] or
\* [ok |-> FALSE, text |-> str(e)] of the create() call in the try block.
generate_persona(data, outcome) ==
    IF outcome.ok THEN [ok |-> TRUE, value |-> outcome.text]
    ELSE [ok |-> FALSE, value |-> GenerationErrorMessage(outcome.text)]

----------------------------------------------------------------------------
(* PersonaFileManager.save_persona                                         *)

RECURSIVE ZeroPad(_, _)
\* n written in w decimal digits, zero padded (%m, %d, %H, %M, %S; %Y of a
\* year of four digits)
ZeroPad(n, w) ==
    IF w = 0 THEN <<>> ELSE ZeroPad(n \div 10, w - 1) \o <<ToString(n % 10)>>

\* now.strftime('%Y-%m-%d %H:%M:%S')
strftime(now) ==
    ZeroPad(now.year, 4) \o <<"-">> \o ZeroPad(now.month, 2) \o <<"-">>
    \o ZeroPad(now.day, 2) \o <<" ">> \o ZeroPad(now.hour, 2) \o <<":">>
    \o ZeroPad(now.minute, 2) \o <<":">> \o ZeroPad(now.second, 2)

\* os.path.join("output", f"{username}_persona.txt")
FilePath(name) == <<"output", "/">> \o name \o <<"_persona.txt">>

\* What the two f.write calls leave in the file opened with mode 'w'.
FileContent(text, now) ==
    text \o <<NL, NL, "Generated on: ">> \o strftime(now)

\* A writer that opens the file with mode 'a'.
save_persona_append(fs, text, name, now, io, kept) ==
    LET old == IF FilePath(name) \in DOMAIN fs THEN fs[FilePath(name)] ELSE <<>>
    IN  IF io = "open_failed" THEN fs
        ELSE IF io = "write_failed"
        THEN (FilePath(name) :> old \o Slice(text, kept)) @@ fs
        ELSE (FilePath(name) :> old \o FileContent(text, now)) @@ fs

\* The files after save_persona.  io: "ok"; "open_failed" (makedirs or open
\* raises: nothing is touched); "write_failed" (open has truncated the file,
\* a write raises: `kept` of the text, at most, is in it).
save_persona(fs, text, name, now, io, kept) ==
    IF io = "open_failed" THEN fs
    ELSE IF io = "write_failed"
    THEN (FilePath(name) :> Slice(text, kept)) @@ fs
    ELSE (FilePath(name) :> FileContent(text, now)) @@ fs

IOErrorMessage == <<"[Errno 28] No space left on device">>

----------------------------------------------------------------------------
(* Inputs                                                                  *)

MaxRuns == 2      \* runs of the program that follow one another
MaxItems == 2     \* items of a listing of the data API in a run
MaxPieces == 4    \* pieces a URL under check is made of
Slack == 1        \* how far around ExcerptLimit the dataset sizes range
MaxTail == 1      \* items of free kind that end a long dataset

DefaultLimit == 100

NoExit == -1

Https == <<"h", "t", "t", "p", "s", ":", "/", "/">>
Alice == <<"a", "l", "i", "c", "e">>
Bob == <<"b", "o", "b">>
ExampleCom == <<"e", "x", "a", "m", "p", "l", "e", ".", "c", "o", "m">>

\* The URLs of the runs: two profile URLs, the URL of another site, nothing.
UrlInputs ==
    { Https \o <<"w", "w", "w", ".">> \o RedditCom
          \o <<"/", "u", "s", "e", "r", "/">> \o Alice \o <<"/">>,
      RedditCom \o <<"/", "u", "/">> \o Bob,
      Https \o ExampleCom \o <<"/", "n", "o", "t", "r", "e", "d", "d", "i", "t">>,
      <<>> }

\* The pieces the URLs under check are made of.
UrlPieces ==
    { Https,
      RedditCom \o <<"/", "u", "/">>,
      RedditCom \o <<"/", "u", "s", "e", "r", "/">>,
      RedditCom \o <<"/", "u", "s", "e", "r", "s", "/">>,
      ExampleCom \o <<"/", "u", "/">>,
      Alice, Bob, <<"/">> }

RECURSIVE UrlsOf(_)
\* The texts made of at most n pieces.
UrlsOf(n) ==
    IF n = 0 THEN {<<>>}
    ELSE LET shorter == UrlsOf(n - 1)
         IN  shorter \cup {u \o p : u \in shorter, p \in UrlPieces}

\* A text of n characters, all different.
Text(n) == [i \in 1..n |-> ToString(i)]

PostId(i) == "p" \o ToString(i)
CommentId(i) == "c" \o ToString(i)

Title == <<"T", "i">>

SelfTexts == {None, <<>>, Text(3), Text(TextLimit), Text(TextLimit + 1)}
Bodies == {None, <<>>, Text(MinCommentLen), Text(MinCommentLen + 1),
           Text(TextLimit), Text(TextLimit + 1)}

\* The kinds of posts: with a title and every self-text, and without a title
\* (null or empty) with and without a self-text.
PostKinds ==
    [title : {Title}, selftext : SelfTexts]
    \cup {[title |-> None, selftext |-> Text(3)],
          [title |-> <<>>, selftext |-> Text(TextLimit + 1)],
          [title |-> <<>>, selftext |-> <<>>],
          [title |-> None, selftext |-> None]}
CommentKinds == [body : Bodies]

\* The listing whose i-th item has the i-th kind of `kinds`.
Submissions(kinds) ==
    [i \in 1..Len(kinds) |->
        [id |-> PostId(i), title |-> kinds[i].title, selftext |-> kinds[i].selftext]]

Comments(kinds) ==
    [i \in 1..Len(kinds) |-> [id |-> CommentId(i), body |-> kinds[i].body]]

SeqsUpTo(S, n) == UNION {[1..k -> S] : k \in 0..n}

Repeat(x, k) == [i \in 1..k |-> x]

\* Sizes of the datasets under check: none, and those around ExcerptLimit.
FillCounts == {0} \cup ((ExcerptLimit - Slack)..(ExcerptLimit + Slack))

FillPosts == {[title |-> Title, selftext |-> Text(3)],
              [title |-> <<>>, selftext |-> Text(3)]}
FillComments == {[body |-> Text(MinCommentLen + 1)], [body |-> Text(MinCommentLen)]}

LongPostLists ==
    {Submissions(Repeat(f, k) \o t) :
        f \in FillPosts, k \in FillCounts, t \in SeqsUpTo(PostKinds, MaxTail)}
LongCommentLists ==
    {Comments(Repeat(f, k) \o t) :
        f \in FillComments, k \in FillCounts, t \in SeqsUpTo(CommentKinds, MaxTail)}

PlainPostLists ==
    {Submissions(Repeat([title |-> Title, selftext |-> <<>>], k)) :
        k \in {0, 2, ExcerptLimit + 1}}
PlainCommentLists ==
    {Comments(Repeat([body |-> Text(MinCommentLen + 2)], k)) :
        k \in {0, 2, ExcerptLimit + 1}}

Dataset(name, posts, comments) ==
    [username |-> name, posts |-> posts, comments |-> comments,
     total_posts |-> Len(posts), total_comments |-> Len(comments)]

\* The datasets _prepare_content is checked on.
Datasets ==
    {Dataset(Alice, p, c) : p \in LongPostLists, c \in PlainCommentLists}
    \cup {Dataset(Alice, p, c) : p \in PlainPostLists, c \in LongCommentLists}

\* The listings the data API answers with in a run.
RemotePosts ==
    {Submissions(k) :
        k \in SeqsUpTo({[title |-> Title, selftext |-> <<>>],
                        [title |-> Title, selftext |-> Text(3)]}, MaxItems)}
RemoteComments ==
    {Comments(k) :
        k \in SeqsUpTo({[body |-> Text(MinCommentLen)],
                        [body |-> Text(MinCommentLen + 1)]}, MaxItems)}

Limits == {1, DefaultLimit}

\* What a run of a front-end meets: the default limit, a user with one post
\* or none and one comment or none, a listing that fails at once or not.
RunLimits == {DefaultLimit}
RunPosts == {<<>>, Submissions(<<[title |-> Title, selftext |-> Text(3)]>>)}
RunComments == {<<>>, Comments(<<[body |-> Text(MinCommentLen + 1)]>>)}
RunFailPoints == {NoFail, 0}
FailPoints == {NoFail} \cup (0..MaxItems)
Lookups == {"ok", "no_id", "api_error"}

ApiErrors == {<<"Invalid api_key">>, <<"rate_limit exceeded">>}
Personas == {<<"PERSONA">>, <<"A", NL, NL, "B", NL>>}
ApiOutcomes ==
    {[ok |-> TRUE, text |-> t] : t \in Personas}
    \cup {[ok |-> FALSE, text |-> e] : e \in ApiErrors}

Clocks ==
    {[year |-> 2025, month |-> 1, day |-> 5, hour |-> 0, minute |-> 7, second |-> 9],
     [year |-> 2026, month |-> 11, day |-> 30, hour |-> 23, minute |-> 59,
      second |-> 58]}

IOOutcomes == {"ok", "open_failed", "write_failed"}

NoData == Dataset(<<>>, <<>>, <<>>)

\* What the data API does in one call of scrape_user_data.
RemoteBehaviours ==
    [lookup : Lookups, posts : RemotePosts, postsFail : FailPoints,
     comments : RemoteComments, commentsFail : FailPoints]

NoRemote == [lookup |-> "ok", posts |-> <<>>, postsFail |-> NoFail,
             comments |-> <<>>, commentsFail |-> NoFail]
NoFiles == [p \in {} |-> <<>>]

----------------------------------------------------------------------------
(* The front-ends: command_line_interface and streamlit_app                *)

\* The status sys.exit is called with in the except clause of the CLI.
FailureStatus == 1

\* The status argparse ends the process with when it rejects the arguments.
UsageStatus == 2

UsageMessage == <<"usage: reddit_persona.py [-h] --url URL">>

\* An except clause without its sys.exit(1): the CLI returns, status 0.
FailWithoutExit(msg) ==
    /\ error' = msg
    /\ pc' = IF frontend = "cli" THEN "exited" ELSE "halted"
    /\ exitCode' = IF frontend = "cli" THEN 0 ELSE exitCode

\* The except clause of the front-end: the CLI prints str(e) and exits with
\* status 1, the UI shows str(e) and goes on running.
Fail(msg) ==
    /\ error' = msg
    /\ pc' = IF frontend = "cli" THEN "exited" ELSE "halted"
    /\ exitCode' = IF frontend = "cli" THEN FailureStatus ELSE exitCode

\* What starts a run leaves behind of the run before.
Fresh ==
    /\ runs' = runs + 1
    /\ before' = files
    /\ username' = <<>> /\ user_data' = NoData /\ excerpt' = <<>>
    /\ persona' = <<>> /\ calls' = <<>>
    /\ UNCHANGED <<files, remote>>

\* A new process is started with --url.  parse_args returns the arguments
\* and the try block is entered, or it ends the process itself: with status
\* 2 and the usage message when it rejects them (--limit not an integer,
\* --model not one of the choices, --url without a value), with status 0
\* when --help is among them.
StartCli ==
    /\ pc \in {"idle", "exited", "usage", "halted"}
    /\ runs < MaxRuns
    /\ frontend' = "cli"
    /\ \E parsed \in {"ok", "rejected", "help"} :
          IF parsed = "ok"
          THEN /\ \E u \in UrlInputs, lim \in RunLimits : url' = u /\ limit' = lim
               /\ pc' = "resolve" /\ exitCode' = NoExit /\ error' = <<>>
          ELSE /\ url' = <<>> /\ limit' = DefaultLimit
               /\ pc' = "usage"
               /\ exitCode' = IF parsed = "help" THEN 0 ELSE UsageStatus
               /\ error' = IF parsed = "help" THEN <<>> ELSE UsageMessage
    /\ Fresh

\* The button of the UI is pressed: without a URL the run ends at once.
StartUi ==
    /\ pc \in {"idle", "exited", "usage", "halted"}
    /\ runs < MaxRuns
    /\ frontend' = "ui"
    /\ \E u \in UrlInputs, lim \in RunLimits :
          /\ url' = u
          /\ limit' = lim
          /\ IF u = <<>>
             THEN pc' = "halted"
                  /\ error' = <<"Please provide a Reddit profile URL.">>
             ELSE pc' = "resolve" /\ error' = <<>>
    /\ exitCode' = NoExit
    /\ Fresh

\* RedditScraper(...) and scraper.extract_username_from_url(url)
Resolve ==
    /\ pc = "resolve"
    /\ LET r == extract_username_from_url(url)
       IN  IF r.ok
           THEN /\ username' = r.value
                /\ pc' = "collect"
                /\ UNCHANGED <<error, exitCode>>
           ELSE /\ Fail(r.value)
                /\ UNCHANGED username
    /\ UNCHANGED <<frontend, url, limit, user_data, excerpt, persona, files,
                   calls, runs, before, remote>>

\* scraper.scrape_user_data(username, limit=...)
Collect ==
    /\ pc = "collect"
    /\ \E lookup \in Lookups, rp \in RunPosts, pf \in RunFailPoints,
          rc \in RunComments, cf \in RunFailPoints :
          LET r == scrape_user_data(username, limit, lookup, rp, pf, rc, cf)
          IN  /\ calls' = calls \o ScrapeCalls(limit, lookup, rp, pf, rc, cf)
              /\ IF r.ok
                 THEN /\ user_data' = r.value
                      /\ pc' = "test"
                      /\ UNCHANGED <<error, exitCode>>
                 ELSE /\ Fail(r.value)
                      /\ UNCHANGED user_data
    /\ UNCHANGED <<frontend, url, limit, username, excerpt, persona, files, runs,
                   before, remote>>

\* PersonaGenerator(GROQ_API_KEY) and the "Test API connection" call, which
\* stands in the front-end's try block, not in generate_persona's.
TestCall ==
    /\ pc = "test"
    /\ \/ /\ calls' = calls \o <<"test">>
          /\ pc' = "generate"
          /\ UNCHANGED <<error, exitCode>>
       \/ /\ calls' = calls \o <<"test:error">>
          /\ \E e \in ApiErrors : Fail(e)
    /\ UNCHANGED <<frontend, url, limit, username, user_data, excerpt, persona,
                   files, runs, before, remote>>

\* generator.generate_persona(user_data)
Generate ==
    /\ pc = "generate"
    /\ excerpt' = prepare_content(user_data)
    /\ \E outcome \in ApiOutcomes :
          LET r == generate_persona(user_data, outcome)
          IN  /\ calls' = calls \o <<IF outcome.ok THEN "completion"
                                     ELSE "completion:error">>
              /\ IF r.ok
                 THEN /\ persona' = r.value
                      /\ pc' = "save"
                      /\ UNCHANGED <<error, exitCode>>
                 ELSE /\ Fail(r.value)
                      /\ UNCHANGED persona
    /\ UNCHANGED <<frontend, url, limit, username, user_data, files, runs,
                   before, remote>>

\* PersonaFileManager.save_persona(persona, username) and the end of the try
\* block: the CLI returns (status 0), the UI shows the result.
Save ==
    /\ pc = "save"
    /\ \E now \in Clocks, io \in IOOutcomes, kept \in {0, Len(persona)} :
          /\ files' = save_persona(files, persona, username, now, io, kept)
          /\ IF io = "ok"
             THEN /\ pc' = IF frontend = "cli" THEN "exited" ELSE "halted"
                  /\ exitCode' = IF frontend = "cli" THEN 0 ELSE exitCode
                  /\ UNCHANGED error
             ELSE Fail(IOErrorMessage)
    /\ UNCHANGED <<frontend, url, limit, username, user_data, excerpt, persona,
                   calls, runs, before, remote>>

\* The values of the variables a specification leaves alone.
Idle ==
    /\ frontend = "cli" /\ limit = DefaultLimit /\ url = <<>>
    /\ username = <<>> /\ user_data = NoData /\ excerpt = <<>> /\ persona = <<>>
    /\ files = NoFiles /\ before = NoFiles /\ exitCode = NoExit /\ error = <<>>
    /\ calls = <<>> /\ runs = 0 /\ remote = NoRemote

Init == pc = "idle" /\ Idle

Next ==
    \/ StartCli
    \/ StartUi
    \/ Resolve
    \/ Collect
    \/ TestCall
    \/ Generate
    \/ Save

Spec == Init /\ [][Next]_vars

----------------------------------------------------------------------------
(* extract_username_from_url on its own                                    *)

InitResolve ==
    /\ url \in UrlsOf(MaxPieces)
    /\ pc = "input"
    /\ frontend = "cli" /\ limit = DefaultLimit
    /\ username = <<>> /\ user_data = NoData /\ excerpt = <<>> /\ persona = <<>>
    /\ files = NoFiles /\ before = NoFiles /\ exitCode = NoExit /\ error = <<>>
    /\ calls = <<>> /\ runs = 0 /\ remote = NoRemote

ResolveOnly ==
    /\ pc = "input"
    /\ LET r == extract_username_from_url(url)
       IN  IF r.ok
           THEN username' = r.value /\ pc' = "returned" /\ UNCHANGED error
           ELSE error' = r.value /\ pc' = "raised" /\ UNCHANGED username
    /\ UNCHANGED <<frontend, url, limit, user_data, excerpt, persona, files,
                   exitCode, calls, runs, before, remote>>

NextResolve == ResolveOnly

SpecResolve == InitResolve /\ [][NextResolve]_vars

----------------------------------------------------------------------------
(* scrape_user_data on its own                                             *)

InitScrape ==
    /\ remote \in RemoteBehaviours
    /\ username \in {Alice, Bob}
    /\ limit \in Limits
    /\ pc = "input"
    /\ frontend = "cli" /\ url = <<>>
    /\ user_data = NoData /\ excerpt = <<>> /\ persona = <<>>
    /\ files = NoFiles /\ before = NoFiles /\ exitCode = NoExit /\ error = <<>>
    /\ calls = <<>> /\ runs = 0

ScrapeOnly ==
    /\ pc = "input"
    /\ LET r == scrape_user_data(username, limit, remote.lookup, remote.posts,
                                 remote.postsFail, remote.comments,
                                 remote.commentsFail)
       IN  /\ calls' = ScrapeCalls(limit, remote.lookup, remote.posts,
                                   remote.postsFail, remote.comments,
                                   remote.commentsFail)
           /\ IF r.ok
              THEN user_data' = r.value /\ pc' = "returned" /\ UNCHANGED error
              ELSE error' = r.value /\ pc' = "raised" /\ UNCHANGED user_data
    /\ UNCHANGED <<frontend, url, limit, username, excerpt, persona, files,
                   exitCode, runs, before, remote>>

NextScrape == ScrapeOnly

SpecScrape == InitScrape /\ [][NextScrape]_vars

----------------------------------------------------------------------------
(* _prepare_content on its own                                             *)

InitContent ==
    /\ user_data \in Datasets
    /\ pc = "input"
    /\ frontend = "cli" /\ limit = DefaultLimit /\ url = <<>>
    /\ username = <<>> /\ excerpt = <<>> /\ persona = <<>>
    /\ files = NoFiles /\ before = NoFiles /\ exitCode = NoExit /\ error = <<>>
    /\ calls = <<>> /\ runs = 0 /\ remote = NoRemote

PrepareOnly ==
    /\ pc = "input"
    /\ excerpt' = prepare_content(user_data)
    /\ pc' = "returned"
    /\ UNCHANGED <<frontend, url, limit, username, user_data, persona, files,
                   exitCode, error, calls, runs, before, remote>>

NextContent == PrepareOnly

SpecContent == InitContent /\ [][NextContent]_vars

----------------------------------------------------------------------------
(* save_persona on its own: calls that follow one another                  *)

InitSave == pc = "input" /\ Idle

SaveOnly ==
    /\ pc \in {"input", "returned", "raised"}
    /\ runs < MaxRuns + 1
    /\ \E text \in Personas, name \in {Alice, Bob}, now \in Clocks,
          io \in IOOutcomes : \E kept \in {0, Len(text)} :
          /\ persona' = text
          /\ username' = name
          /\ before' = files
          /\ files' = save_persona(files, text, name, now, io, kept)
          /\ IF io = "ok"
             THEN pc' = "returned" /\ error' = <<>>
             ELSE pc' = "raised" /\ error' = IOErrorMessage
    /\ runs' = runs + 1
    /\ UNCHANGED <<frontend, url, limit, user_data, excerpt, exitCode, calls,
                   remote>>

NextSave == SaveOnly

SpecSave == InitSave /\ [][NextSave]_vars

----------------------------------------------------------------------------
(* Claims about extract_username_from_url (checked under SpecResolve)      *)

\* Whether lit stands in s at index i with a character other than "/" after it.
Occurs(lit, s, i) ==
    /\ i >= 1
    /\ i + Len(lit) <= Len(s)
    /\ SubSeq(s, i, i + Len(lit) - 1) = lit
    /\ s[i + Len(lit)] # "/"

\* The characters of s from index j up to the next "/" or the end of s.
SegmentFrom(s, j) ==
    LET stops == {k \in j..Len(s) : s[k] = "/"}
        end == IF stops = {} THEN Len(s)
               ELSE (CHOOSE k \in stops : \A m \in stops : k <= m) - 1
    IN  SubSeq(s, j, end)

OccursIn(lit, s) == \E i \in 1..Len(s) : Occurs(lit, s, i)

\* The name after the leftmost place of s where lit occurs.
LeftmostName(lit, s) ==
    LET i == CHOOSE i \in 1..Len(s) :
                 Occurs(lit, s, i) /\ \A j \in 1..(i - 1) : ~Occurs(lit, s, j)
    IN  SegmentFrom(s, i + Len(lit))

ProfileU == RedditCom \o <<"/", "u", "/">>
ProfileUser == RedditCom \o <<"/", "u", "s", "e", "r", "/">>
ProfileUsers == RedditCom \o <<"/", "u", "s", "e", "r", "s", "/">>

Resolved == pc \in {"returned", "raised"}

\* C1 (as amended): a string that holds reddit.com/u/<name>,
\* reddit.com/user/<name> or reddit.com/users/<name>, <name> being one or more
\* characters other than "/" up to the next "/" or the end of the string,
\* resolves to the <name> of the leftmost occurrence of the first of the three
\* shapes (in this order) that occurs in it; every other string fails with the
\* ValueError "Invalid Reddit URL format: <url>" and yields no username.
C1_ResolvesRedditProfiles ==
    Resolved =>
        IF OccursIn(ProfileU, url)
        THEN pc = "returned" /\ username = LeftmostName(ProfileU, url) /\ error = <<>>
        ELSE IF OccursIn(ProfileUser, url)
        THEN pc = "returned" /\ username = LeftmostName(ProfileUser, url) /\ error = <<>>
        ELSE IF OccursIn(ProfileUsers, url)
        THEN pc = "returned" /\ username = LeftmostName(ProfileUsers, url) /\ error = <<>>
        ELSE pc = "raised" /\ username = <<>>
             /\ error = <<"Invalid Reddit URL format: ">> \o url

\* A URL that holds a /user/ profile and, later, a /u/ profile has resolved to
\* the name of the /u/ profile.
C1_Witness ==
    /\ pc = "returned"
    /\ OccursIn(ProfileU, url) /\ OccursIn(ProfileUser, url)
    /\ username = Bob
    /\ LeftmostName(ProfileUser, url) = Alice \o RedditCom

PathShapes == {<<"/", "u", "/">>, <<"/", "u", "s", "e", "r", "/">>,
               <<"/", "u", "s", "e", "r", "s", "/">>}

\* C1 as stated: every string of the shape .../u/<name>, .../user/<name> or
\* .../users/<name> resolves to <name>, every other string fails.
C1_AsStated ==
    Resolved =>
        IF \E sh \in PathShapes : OccursIn(sh, url)
        THEN /\ pc = "returned"
             /\ \E sh \in PathShapes : \E i \in 1..Len(url) :
                   Occurs(sh, url, i) /\ username = SegmentFrom(url, i + Len(sh))
        ELSE pc = "raised"

----------------------------------------------------------------------------
(* Claims about _prepare_content (checked under SpecContent)               *)

\* The places of the line breaks of the text e.
LineBreaks(e) == {i \in 1..Len(e) : e[i] = "\n"}

\* The places where an entry of the excerpt e starts: its first character and
\* every place that follows two line breaks.
EntryStarts(e, nls) ==
    IF e = <<>> THEN {}
    ELSE {1} \cup {i + 1 : i \in {j \in nls : j - 1 \in nls}}

\* The entry of e that starts at st: it runs to the next line break or the end.
EntryFrom(e, nls, st) ==
    LET later == {k \in nls : k > st}
        end == IF later = {} THEN Len(e)
               ELSE (CHOOSE k \in later : \A m \in later : k <= m) - 1
    IN  SubSeq(e, st, end)

\* The entries of the excerpt e with tag `tag` and identifier id.
EntriesOf(e, nls, starts, tag, id) ==
    {EntryFrom(e, nls, st) :
        st \in {t \in starts : t + 1 <= Len(e) /\ e[t] = tag /\ e[t + 1] = id}}

IsText(x) == x # <<"<None>">>

FirstPosts == SubSeq(user_data.posts, 1, Min(50, Len(user_data.posts)))
FirstComments == SubSeq(user_data.comments, 1, Min(50, Len(user_data.comments)))

Prepared == pc = "returned"

\* C4: the excerpt holds at most 50 POST entries and at most 50 COMMENT
\* entries, each carrying the id of one of the first 50 posts (comments) of
\* the dataset; among the first 50 comments one whose body has exactly 10
\* characters has no entry, one whose body has 11 characters or more has the
\* entry `COMMENT [id]: ` followed by the first 500 characters of its body
\* (the whole body when it is shorter).
C4_ExcerptBounded ==
    Prepared =>
        LET nls == LineBreaks(excerpt)
            starts == EntryStarts(excerpt, nls)
            postStarts == {st \in starts : excerpt[st] = "POST ["}
            commentStarts == {st \in starts : excerpt[st] = "COMMENT ["}
        IN  /\ Cardinality(postStarts) <= 50
            /\ Cardinality(commentStarts) <= 50
            /\ \A st \in postStarts :
                  \E i \in 1..Len(FirstPosts) : FirstPosts[i].id = excerpt[st + 1]
            /\ \A st \in commentStarts :
                  \E i \in 1..Len(FirstComments) :
                      FirstComments[i].id = excerpt[st + 1]
            /\ \A i \in 1..Len(FirstComments) :
                  LET c == FirstComments[i]
                      found == EntriesOf(excerpt, nls, starts, "COMMENT [", c.id)
                  IN  /\ (IsText(c.body) /\ Len(c.body) = 10) => found = {}
                      /\ (IsText(c.body) /\ Len(c.body) >= 11) =>
                            /\ found = {<<"COMMENT [", c.id, "]: ">>
                                        \o SubSeq(c.body, 1, Min(500, Len(c.body)))}
                            /\ \A en \in found : Len(en) - 3 <= 500

\* _prepare_content has returned for a dataset of 51 posts and 50 comments:
\* 50 of the posts are in the excerpt; the 49th comment has 10 characters and
\* is left out, the 50th has 501 characters and is in the excerpt cut to 500.
C4_Witness ==
    /\ Prepared
    /\ Len(user_data.posts) = 51
    /\ Cardinality({i \in 1..Len(excerpt) : excerpt[i] = "POST ["}) = 50
    /\ Len(user_data.comments) = 50
    /\ Len(user_data.comments[50].body) = 501
    /\ Len(user_data.comments[49].body) = 10
    /\ \E st \in 1..Len(excerpt) :
          /\ excerpt[st] = "COMMENT ["
          /\ excerpt[st + 1] = user_data.comments[50].id
          /\ st + 502 = Len(excerpt)

NonEmpty(x) == IsText(x) /\ x # <<>>

TitleOnly(post) == <<"POST [", post.id, "]: ">> \o post.title

TitleAndText(post) ==
    <<"POST [", post.id, "]: ">> \o post.title \o <<" - ">>
    \o SubSeq(post.selftext, 1, Min(500, Len(post.selftext)))

\* C5 (as amended): among the first 50 posts, a post with a non-empty title
\* and an empty or null self-text has the entry `POST [id]: title`; a post
\* with a non-empty title and a non-empty self-text has the entry
\* `POST [id]: title - ` followed by the first 500 characters of the
\* self-text; a post is left out exactly when its title is empty or null,
\* whatever its self-text.
C5_PostsNeedTitle ==
    Prepared =>
        LET nls == LineBreaks(excerpt)
            starts == EntryStarts(excerpt, nls)
        IN  \A i \in 1..Len(FirstPosts) :
                LET p == FirstPosts[i]
                    found == EntriesOf(excerpt, nls, starts, "POST [", p.id)
                IN  /\ (NonEmpty(p.title) /\ ~NonEmpty(p.selftext)) =>
                          found = {TitleOnly(p)}
                    /\ (NonEmpty(p.title) /\ NonEmpty(p.selftext)) =>
                          found = {TitleAndText(p)}
                    /\ ~NonEmpty(p.title) <=> found = {}

\* _prepare_content has returned for a dataset whose 50th post has a title and
\* a self-text of 501 characters, and whose first post has a self-text and an
\* empty title: the first has no entry, the 50th has one, cut.
C5_Witness ==
    /\ Prepared
    /\ Len(user_data.posts) = 50
    /\ user_data.posts[1].title = <<>>
    /\ NonEmpty(user_data.posts[1].selftext)
    /\ NonEmpty(user_data.posts[50].title)
    /\ Len(user_data.posts[50].selftext) = 501
    /\ \A i \in 1..Len(excerpt) : excerpt[i] # user_data.posts[1].id
    /\ \E i \in 1..Len(excerpt) :
          excerpt[i] = user_data.posts[50].id /\ Len(excerpt) >= i + 500

\* C5 as stated: a post with a title and no self-text has the title-only
\* entry, a post with a non-empty self-text has an entry that holds the first
\* 500 characters of the self-text, and only a post with neither is left out.
C5_AsStated ==
    Prepared =>
        LET nls == LineBreaks(excerpt)
            starts == EntryStarts(excerpt, nls)
        IN  \A i \in 1..Len(FirstPosts) :
                LET p == FirstPosts[i]
                    found == EntriesOf(excerpt, nls, starts, "POST [", p.id)
                    cut == SubSeq(p.selftext, 1, Min(500, Len(p.selftext)))
                IN  /\ (NonEmpty(p.title) /\ ~NonEmpty(p.selftext)) =>
                          found = {TitleOnly(p)}
                    /\ NonEmpty(p.selftext) =>
                          \E en \in found :
                              /\ Len(en) >= Len(cut)
                              /\ SubSeq(en, Len(en) - Len(cut) + 1, Len(en)) = cut
                    /\ found = {} => (~NonEmpty(p.title) /\ ~NonEmpty(p.selftext))

\* The place of the item an entry that starts at st stands for: the posts of
\* the dataset come first, the comments after them.
Rank(e, st) ==
    IF e[st] = "POST ["
    THEN CHOOSE i \in 1..Len(user_data.posts) : user_data.posts[i].id = e[st + 1]
    ELSE Len(user_data.posts)
         + (CHOOSE i \in 1..Len(user_data.comments) :
                user_data.comments[i].id = e[st + 1])

\* Whether the entry en is the entry of a post (comment) of the dataset,
\* tagged with the kind and the id of that very item.
TaggedWithOwnId(en) ==
    /\ Len(en) >= 4
    /\ en[3] = "]: "
    /\ \/ /\ en[1] = "POST ["
          /\ \E i \in 1..Len(user_data.posts) :
                LET p == user_data.posts[i]
                IN  /\ p.id = en[2]
                    /\ NonEmpty(p.title)
                    /\ SubSeq(en, 4, 3 + Len(p.title)) = p.title
       \/ /\ en[1] = "COMMENT ["
          /\ \E i \in 1..Len(user_data.comments) :
                LET c == user_data.comments[i]
                IN  /\ c.id = en[2]
                    /\ NonEmpty(c.body)
                    /\ en[4] = c.body[1]

QualifyingPosts == {i \in 1..Len(FirstPosts) : NonEmpty(FirstPosts[i].title)}
QualifyingComments ==
    {i \in 1..Len(FirstComments) :
        NonEmpty(FirstComments[i].body) /\ Len(FirstComments[i].body) > 10}

\* C9: the excerpt is the entries of the qualifying posts, in the order of the
\* dataset, then the entries of the qualifying comments, in the order of the
\* dataset; every entry starts with its kind, the id of its own item and
\* "]: "; between two neighbouring entries stand exactly two line breaks (one
\* blank line), and none stands before the first or after the last entry.
C9_EntriesInOrder ==
    Prepared =>
        LET nls == LineBreaks(excerpt)
            starts == EntryStarts(excerpt, nls)
        IN  /\ Cardinality(starts)
                 = Cardinality(QualifyingPosts) + Cardinality(QualifyingComments)
            /\ \A i \in nls : (i - 1 \in nls) # (i + 1 \in nls)
            /\ 1 \notin nls /\ Len(excerpt) \notin nls
            /\ \A i \in 1..Len(excerpt) :
                  excerpt[i] \in {"POST [", "COMMENT ["} => i \in starts
            /\ \A st \in starts :
                  LET en == EntryFrom(excerpt, nls, st)
                      next == st + Len(en) + 2
                  IN  /\ TaggedWithOwnId(en)
                      /\ next \in starts => Rank(excerpt, st) < Rank(excerpt, next)

\* _prepare_content has returned an excerpt of two posts and more comments:
\* the last post entry is followed by a blank line and the first comment entry.
C9_Witness ==
    /\ Prepared
    /\ Len(user_data.posts) = 2
    /\ Len(user_data.comments) > 50
    /\ \E i \in 1..Len(excerpt) :
          /\ i >= 7
          /\ excerpt[i] = "COMMENT ["
          /\ excerpt[i - 1] = "\n" /\ excerpt[i - 2] = "\n"
          /\ excerpt[i - 6] = user_data.posts[2].id

----------------------------------------------------------------------------
(* Claims about scrape_user_data (checked under SpecScrape)                *)

\* The dicts of the first n items of a listing of submissions (comments).
PostsRead(n) ==
    [i \in 1..n |-> [id |-> remote.posts[i].id, title |-> remote.posts[i].title,
                     selftext |-> remote.posts[i].selftext]]
CommentsRead(n) ==
    [i \in 1..n |-> [id |-> remote.comments[i].id, body |-> remote.comments[i].body]]

PostsRaised == Len(calls) >= 2 /\ calls[2] = "submissions:error"
CommentsRaised == Len(calls) >= 3 /\ calls[3] = "comments:error"

\* C3 (as amended): when the user lookup succeeds the call succeeds, whatever
\* the two listings do.  If retrieving posts raises an error, the dataset
\* holds exactly the posts read before the error (none only when it is raised
\* before the first post) and the comments are collected as without it; the
\* same holds of comments and posts exchanged.  total_posts and
\* total_comments are the lengths of posts and comments.
C3_PartialListingsKept ==
    /\ (pc # "input" /\ remote.lookup = "ok") => pc = "returned"
    /\ pc = "returned" =>
          /\ remote.lookup = "ok"
          /\ user_data.username = username
          /\ user_data.total_posts = Len(user_data.posts)
          /\ user_data.total_comments = Len(user_data.comments)
          /\ user_data.posts =
                IF PostsRaised THEN PostsRead(remote.postsFail)
                ELSE PostsRead(Min(limit, Len(remote.posts)))
          /\ user_data.comments =
                IF CommentsRaised THEN CommentsRead(remote.commentsFail)
                ELSE CommentsRead(Min(limit, Len(remote.comments)))

\* The listing of posts raised after one post was read; the call returned a
\* dataset of that one post and of both comments.
C3_Witness ==
    /\ pc = "returned"
    /\ PostsRaised /\ ~CommentsRaised
    /\ Len(remote.posts) = 2
    /\ user_data.total_posts = 1
    /\ user_data.total_comments = 2

\* C3 as stated: a listing that raises leaves its part of the dataset empty.
C3_AsStated ==
    pc = "returned" =>
        /\ PostsRaised => user_data.total_posts = 0
        /\ CommentsRaised => user_data.total_comments = 0
        /\ user_data.total_posts = Len(user_data.posts)
        /\ user_data.total_comments = Len(user_data.comments)

----------------------------------------------------------------------------
(* Claims about save_persona (checked under SpecSave)                      *)

Digits == {"0", "1", "2", "3", "4", "5", "6", "7", "8", "9"}

\* Whether t is written YYYY-MM-DD HH:MM:SS.
IsTimestamp(t) ==
    /\ Len(t) = 19
    /\ \A i \in {1, 2, 3, 4, 6, 7, 9, 10, 12, 13, 15, 16, 18, 19} : t[i] \in Digits
    /\ t[5] = "-" /\ t[8] = "-" /\ t[11] = " " /\ t[14] = ":" /\ t[17] = ":"

PathOf(name) == <<"output", "/">> \o name \o <<"_persona.txt">>

\* C6 (as amended): when a call of save_persona has returned, whatever calls
\* came before it, the file output/<username>_persona.txt holds the text of
\* this call, two line breaks (a blank line), the label "Generated on: " and a
\* time stamp written YYYY-MM-DD HH:MM:SS, and nothing else; no other file has
\* changed.
C6_LastSaveOnly ==
    pc = "returned" =>
        /\ PathOf(username) \in DOMAIN files
        /\ LET content == files[PathOf(username)]
               n == Len(persona)
           IN  /\ Len(content) = n + 3 + 19
               /\ SubSeq(content, 1, n) = persona
               /\ content[n + 1] = "\n" /\ content[n + 2] = "\n"
               /\ content[n + 3] = "Generated on: "
               /\ IsTimestamp(SubSeq(content, n + 4, n + 22))
        /\ \A q \in DOMAIN files \ {PathOf(username)} :
              q \in DOMAIN before /\ files[q] = before[q]

\* A call has returned for a username whose file held the complete result of a
\* save of another text.
C6_Witness ==
    /\ pc = "returned"
    /\ runs >= 2
    /\ persona = <<"PERSONA">>
    /\ PathOf(username) \in DOMAIN before
    /\ Len(before[PathOf(username)]) = 5 + 3 + 19
    /\ before[PathOf(username)][1] = "A"
    /\ files[PathOf(username)][1] = "PERSONA"

\* C6 as stated: the file is the text, a blank line, then the time stamp.
C6_AsStated ==
    pc = "returned" =>
        /\ PathOf(username) \in DOMAIN files
        /\ LET content == files[PathOf(username)]
               n == Len(persona)
           IN  /\ Len(content) = n + 2 + 19
               /\ SubSeq(content, 1, n) = persona
               /\ content[n + 1] = "\n" /\ content[n + 2] = "\n"
               /\ IsTimestamp(SubSeq(content, n + 3, n + 21))

----------------------------------------------------------------------------
(* Claims about the runs of the front-ends (checked under Spec)            *)

UrlResolves ==
    OccursIn(ProfileU, url) \/ OccursIn(ProfileUser, url)
    \/ OccursIn(ProfileUsers, url)

\* The run is in, or has left, the try block of its front-end.
InPipeline == pc \in {"resolve", "collect", "test", "generate", "save",
                      "exited", "halted"}

LastCall == IF calls = <<>> THEN "none" ELSE calls[Len(calls)]

CountCalls(name) == Cardinality({i \in 1..Len(calls) : calls[i] = name})

\* C2: in a run of the CLI that has entered the try block with a URL that
\* does not resolve, no call to the data API or the completion API is ever
\* made; the run ends with the ValueError "Invalid Reddit URL format: <url>"
\* and the process exits with status 1.
C2_InvalidUrlFailsFirst ==
    (frontend = "cli" /\ InPipeline /\ ~UrlResolves) =>
        /\ calls = <<>>
        /\ pc \in {"resolve", "exited"}
        /\ pc = "exited" =>
              /\ exitCode = 1
              /\ error = <<"Invalid Reddit URL format: ">> \o url
              /\ username = <<>>

\* A run of the CLI on https://example.com/notreddit has ended.
C2_Witness ==
    /\ frontend = "cli" /\ pc = "exited"
    /\ Len(url) = 29 /\ url[9] = "e"
    /\ exitCode = 1
    /\ calls = <<>>

\* C7 (as amended): an error raised by the completion call of generate_persona
\* reaches the front-end as an exception whose message is "Error generating
\* persona: " followed by the message of the error, the request was made once
\* and the run ends there; an error raised by the front-end's own "Test API
\* connection" call is not wrapped: it reaches the front-end with its own
\* message, and generate_persona is not called.
C7_GenerationErrorsWrapped ==
    /\ LastCall = "completion:error" =>
          /\ pc \in {"exited", "halted"}
          /\ \E e \in ApiErrors : error = <<"Error generating persona: ">> \o e
          /\ CountCalls("completion:error") + CountCalls("completion") = 1
          /\ persona = <<>>
    /\ LastCall = "test:error" =>
          /\ pc \in {"exited", "halted"}
          /\ error \in ApiErrors
          /\ CountCalls("test:error") + CountCalls("test") = 1
          /\ CountCalls("completion:error") + CountCalls("completion") = 0
    /\ \A i \in 1..(Len(calls) - 1) :
          calls[i] \notin {"completion:error", "test:error"}

\* The completion call of generate_persona has raised in a run of the UI.
C7_Witness ==
    /\ frontend = "ui" /\ pc = "halted"
    /\ LastCall = "completion:error"
    /\ error = <<"Error generating persona: ", "rate_limit exceeded">>

\* C7 as stated: every error of a call to the completion API reaches the
\* caller with the message "Error generating persona: ...".
C7_AsStated ==
    LastCall \in {"completion:error", "test:error"} =>
        /\ error # <<>>
        /\ error[1] = "Error generating persona: "

StepFailed == error \notin {<<>>, UsageMessage}

DataCallsMade ==
    /\ Len(calls) >= 3
    /\ calls[1] = "redditor"
    /\ calls[2] \in {"submissions", "submissions:error"}
    /\ calls[3] \in {"comments", "comments:error"}

AllCallsMade ==
    /\ Len(calls) = 5
    /\ DataCallsMade
    /\ calls[4] = "test"
    /\ calls[5] = "completion"

\* Resolve, collect, synthesize and save have all succeeded.
AllSucceeded ==
    /\ UrlResolves
    /\ username # <<>>
    /\ AllCallsMade
    /\ user_data.username = username
    /\ persona # <<>>
    /\ error = <<>>
    /\ PathOf(username) \in DOMAIN files
    /\ SubSeq(files[PathOf(username)], 1, Len(persona)) = persona
    /\ Len(files[PathOf(username)]) = Len(persona) + 22

\* C8 (as amended): once parse_args has returned the arguments, the process
\* exits with status 1 when a step of the pipeline has failed (invalid URL,
\* user not found, failure of the test call or of the generation, failure of
\* the write) and with status 0 exactly when resolve, collect, synthesize and
\* save have all succeeded; when parse_args ends the process itself, the
\* status is 2 (arguments rejected) or 0 (--help) and no step has run.
C8_ExitStatus ==
    /\ (frontend = "cli" /\ pc = "exited") =>
          /\ exitCode \in {0, 1}
          /\ exitCode = 1 <=> StepFailed
          /\ exitCode = 0 <=> AllSucceeded
    /\ pc = "usage" =>
          /\ exitCode \in {0, 2}
          /\ calls = <<>> /\ username = <<>> /\ files = before
    /\ (frontend = "cli" /\ pc \notin {"exited", "usage"}) => exitCode = NoExit

\* A run of the CLI has ended with status 1 on a failed write, after a run
\* that wrote a file.
C8_Witness ==
    /\ frontend = "cli" /\ pc = "exited"
    /\ runs = 2
    /\ exitCode = 1
    /\ AllCallsMade
    /\ persona # <<>>
    /\ before # NoFiles

\* C8 as stated: the process exits with status 1 when a step has failed and
\* with status 0 in every other run, which is when the four steps succeeded.
C8_AsStated ==
    (frontend = "cli" /\ pc \in {"exited", "usage"}) =>
        /\ StepFailed => exitCode = 1
        /\ ~StepFailed => exitCode = 0
        /\ exitCode = 0 <=> AllSucceeded

\* C10: in a run of either front-end the calls are made in the order lookup,
\* posts, comments, test, completion, none after one that stopped the run;
\* collecting starts only with a resolved username, the completion call only
\* with the collected dataset, saving only with the returned persona.  The
\* files differ from what they were when the run started only once the save
\* step has run, after resolution, collection and the completion call have
\* succeeded, and then only in output/<username>_persona.txt.
C10_StepsInOrder ==
    /\ \A i \in 1..Len(calls) :
          /\ calls[i] \in
                CASE i = 1 -> {"redditor", "redditor:error"}
                  [] i = 2 -> {"submissions", "submissions:error"}
                  [] i = 3 -> {"comments", "comments:error"}
                  [] i = 4 -> {"test", "test:error"}
                  [] i = 5 -> {"completion", "completion:error"}
                  [] OTHER -> {}
          /\ i < Len(calls) =>
                calls[i] \notin {"redditor:error", "test:error", "completion:error"}
    /\ pc = "collect" => (UrlResolves /\ username # <<>> /\ calls = <<>>)
    /\ pc = "test" => (DataCallsMade /\ Len(calls) = 3
                       /\ user_data.username = username)
    /\ pc = "generate" => (DataCallsMade /\ Len(calls) = 4 /\ calls[4] = "test")
    /\ pc = "save" => (AllCallsMade /\ persona # <<>>)
    /\ pc \in {"resolve", "collect", "test", "generate", "save"} =>
          (files = before /\ error = <<>>)
    /\ (pc \in {"exited", "halted", "usage"} /\ files # before) =>
          /\ UrlResolves /\ username # <<>>
          /\ AllCallsMade
          /\ user_data.username = username
          /\ persona # <<>>
          /\ \A q \in (DOMAIN files \cup DOMAIN before) \ {PathOf(username)} :
                q \in DOMAIN files /\ q \in DOMAIN before /\ files[q] = before[q]

\* A second run, of the UI, has written the first file under output/, the
\* listing of the posts having raised.
C10_Witness ==
    /\ frontend = "ui" /\ pc = "halted"
    /\ runs = 2
    /\ before = NoFiles
    /\ files # before
    /\ AllCallsMade
    /\ calls[2] = "submissions:error"
====
